---- MODULE Spec2Model ----
(***************************************************************************)
(* fibdrv: a character device that computes Fibonacci numbers with one of  *)
(* three strategies (fib_dp, fib_double, fib_double_clz) over a decimal    *)
(* big-number type bn_t.  The driver is src/fibdrv.c; the big-number      *)
(* header bn.h is not part of the available sources, so bn_init, bn_add,   *)
(* bn_sub, bn_mul and MAX_DIGITS are modelled from the written contract.   *)
(***************************************************************************)
EXTENDS Integers, Sequences, FiniteSets, TLC

(***************************************************************************)
(* Program constants.                                                      *)
(***************************************************************************)
MAX_LENGTH == 150

\* capacity of bn_t.digits and of fib_read's tmp buffer (bn.h): large enough
\* for the largest value the supported index range produces, F(151).
MAX_DIGITS == 32

\* a scan over a 16-bit window only
SCAN_TOP_short == 31 - 16

\* top bit position of the fixed scan of fib_double: for (int i = 31; ...)
SCAN_TOP == 31

(***************************************************************************)
(* bn_t: num_digits decimal digits, least-significant first.  A bn_t is    *)
(* modelled as the sequence digits[0..num_digits-1].                       *)
(***************************************************************************)
Max(x, y) == IF x >= y THEN x ELSE y

\* digits[i] of an array zero-filled beyond num_digits (0-based index i)
DigitAt(n, i) == IF i + 1 <= Len(n) THEN n[i + 1] ELSE 0

\* drop most-significant zero digits, keeping at least one digit
RECURSIVE Trim(_)
Trim(n) ==
    IF Len(n) > 1 /\ n[Len(n)] = 0 THEN Trim(SubSeq(n, 1, Len(n) - 1)) ELSE n

\* a result that does not fit the fixed array keeps its low MAX_DIGITS digits
Truncate(n) == IF Len(n) > MAX_DIGITS THEN SubSeq(n, 1, MAX_DIGITS) ELSE n

\* init: decompose a small non-negative integer into decimal digits
RECURSIVE InitDigits(_)
InitDigits(v) ==
    IF v < 10 THEN <<v>> ELSE <<v % 10>> \o InitDigits(v \div 10)

bn_init(v) == InitDigits(v)

\* add: digit-wise addition with carry propagation.  st is the loop's state:
\* the digit index i, the carry and the result digits written so far
RECURSIVE AddLoop(_, _, _)
AddLoop(st, a, b) ==
    IF st.i >= Max(Len(a), Len(b))
    THEN IF st.carry > 0 THEN Append(st.digits, st.carry) ELSE st.digits
    ELSE LET s == DigitAt(a, st.i) + DigitAt(b, st.i) + st.carry
         IN  AddLoop([i |-> st.i + 1, carry |-> s \div 10,
                      digits |-> Append(st.digits, s % 10)], a, b)

bn_add(a, b) ==
    Truncate(Trim(AddLoop([i |-> 0, carry |-> 0, digits |-> <<>>], a, b)))

\* numeric comparison a >= b of two canonical bn_t
RECURSIVE GeFrom(_, _, _)
GeFrom(a, b, i) ==
    IF i < 0 THEN TRUE
    ELSE IF DigitAt(a, i) # DigitAt(b, i) THEN DigitAt(a, i) > DigitAt(b, i)
    ELSE GeFrom(a, b, i - 1)

bn_ge(a, b) == GeFrom(a, b, Max(Len(a), Len(b)) - 1)

\* sub: digit-wise subtraction with borrow propagation over the minuend's
\* digits; defined for a >= b only
RECURSIVE SubLoop(_, _, _)
SubLoop(st, a, b) ==
    IF st.i >= Len(a) THEN st.digits
    ELSE LET d == DigitAt(a, st.i) - DigitAt(b, st.i) - st.borrow
         IN  SubLoop([i |-> st.i + 1, borrow |-> IF d < 0 THEN 1 ELSE 0,
                      digits |-> Append(st.digits, IF d < 0 THEN d + 10 ELSE d)],
                     a, b)

bn_sub(a, b) ==
    Truncate(Trim(SubLoop([i |-> 0, borrow |-> 0, digits |-> <<>>], a, b)))

\* mul: schoolbook multiplication.  One row adds a[i] * b into the result
\* array at offset i, digit by digit, carrying as it goes; st is the inner
\* loop's state: the index j into b, the carry and the result array
RECURSIVE MulRow(_, _, _, _)
MulRow(st, ai, b, i) ==
    IF st.j >= Len(b)
    THEN [st.digits EXCEPT ![i + st.j + 1] = st.carry]
    ELSE LET s == st.digits[i + st.j + 1] + ai * b[st.j + 1] + st.carry
         IN  MulRow([j |-> st.j + 1, carry |-> s \div 10,
                     digits |-> [st.digits EXCEPT ![i + st.j + 1] = s % 10]],
                    ai, b, i)

\* the outer loop over the digits of a; st is its index i and the result array
RECURSIVE MulRows(_, _, _)
MulRows(st, a, b) ==
    IF st.i >= Len(a) THEN st.digits
    ELSE MulRows([i |-> st.i + 1,
                  digits |-> MulRow([j |-> 0, carry |-> 0, digits |-> st.digits],
                                    a[st.i + 1], b, st.i)], a, b)

\* the product has len(a) + len(b) digits, less one if the top digit is zero
TrimOne(n) ==
    IF Len(n) > 1 /\ n[Len(n)] = 0 THEN SubSeq(n, 1, Len(n) - 1) ELSE n

\* the zero-filled result array
RECURSIVE Zeros(_)
Zeros(n) == IF n = 0 THEN <<>> ELSE Append(Zeros(n - 1), 0)

bn_mul(a, b) ==
    Truncate(TrimOne(MulRows([i |-> 0, digits |-> Zeros(Len(a) + Len(b))], a, b)))

(***************************************************************************)
(* The three strategies, as the functions of k they compute.               *)
(***************************************************************************)
\* for (int i = 2; i <= k; i++) bn_add(&f[i], &f[i - 1], &f[i - 2]);
\* fr is the frame: the loop index i and the array f[0..i-1] written so far
\* (C's f[j] is fr.f[j + 1]).  One pass through the loop head: the body while
\* i <= k, nothing once the loop has ended
DpStep(fr, k) ==
    IF fr.i <= k
    THEN [i |-> fr.i + 1, f |-> Append(fr.f, bn_add(fr.f[fr.i], fr.f[fr.i - 1]))]
    ELSE fr

\* n passes through the loop head, taken in two halves so that the
\* evaluation stays shallow
RECURSIVE DpLoop(_, _, _)
DpLoop(fr, k, n) ==
    IF fr.i > k \/ n = 0 THEN fr
    ELSE IF n = 1 THEN DpStep(fr, k)
    ELSE DpLoop(DpLoop(fr, k, n \div 2), k, n - n \div 2)

\* the loop ends within k passes; return f[k]
fib_dp(k) == DpLoop([i |-> 2, f |-> <<bn_init(0), bn_init(1)>>], k, k).f[k + 1]

\* k >> i
RECURSIVE Shr(_, _)
Shr(k, i) == IF i = 0 THEN k ELSE Shr(k \div 2, i - 1)

\* every bit taken as set
BitSet_always(k, i) == TRUE

\* k & (1ull << i), for k >= 0
BitSet(k, i) == Shr(k, i) % 2 = 1

\* tmp1 left at b, not doubled
DoubleB_single(b) == b

\* bn_add(&tmp1, &b, &b)
DoubleB(b) == bn_add(b, b)

\* the doubling step alone, the current bit of k ignored
ScanRest_noadvance(a, b, tmp1, k, i) ==
    LET tmp2 == bn_sub(tmp1, a)
        t1   == bn_mul(a, tmp2)
        sqa  == bn_mul(a, a)
        sqb  == bn_mul(b, b)
        t2   == bn_add(sqa, sqb)
    IN  <<t1, t2>>

\* the rest of one iteration of the bit scan, from bn_sub on: the new (a, b)
ScanRest(a, b, tmp1, k, i) ==
    LET tmp2 == bn_sub(tmp1, a)
        t1   == bn_mul(a, tmp2)
        sqa  == bn_mul(a, a)
        sqb  == bn_mul(b, b)
        t2   == bn_add(sqa, sqb)
    IN  IF BitSet(k, i) THEN <<t2, bn_add(t1, t2)>> ELSE <<t1, t2>>

ScanIter(a, b, k, i) == ScanRest(a, b, DoubleB(b), k, i)

\* the number of bits of k up to its highest set bit
RECURSIVE BitLen(_)
BitLen(k) == IF k = 0 THEN 0 ELSE 1 + BitLen(k \div 2)

\* __builtin_clz(k) for 0 < k < 2^31: the number of zero bits above the
\* highest set bit of a 32-bit word
Clz(k) == 32 - BitLen(k)

\* the CLZ scan started one position too high
ScanTop_high(s, n) == IF s = "fib_double" THEN SCAN_TOP ELSE 32 - Clz(n)

\* the bit position the scan of strategy s starts at
ScanTop(s, n) == IF s = "fib_double" THEN SCAN_TOP ELSE 31 - Clz(n)

\* the seeds taken the other way round
ScanSeed_swapped == <<bn_init(1), bn_init(0)>>

\* bn_init(&a, 0); bn_init(&b, 1)
ScanSeed == <<bn_init(0), bn_init(1)>>

\* for (int i = top; i >= 0; --i) { ... } return a;
\* fr is the frame: the bit position i and the pair (a, b)
RECURSIVE ScanLoop(_, _)
ScanLoop(fr, k) ==
    IF fr.i < 0 THEN fr.ab[1]
    ELSE ScanLoop([i |-> fr.i - 1, ab |-> ScanIter(fr.ab[1], fr.ab[2], k, fr.i)], k)

fib_double(k) ==
    IF k = 0 THEN ScanSeed[1]
    ELSE IF k = 1 THEN ScanSeed[2]
    ELSE ScanLoop([i |-> ScanTop("fib_double", k), ab |-> ScanSeed], k)

fib_double_clz(k) ==
    IF k = 0 THEN ScanSeed[1]
    ELSE IF k = 1 THEN ScanSeed[2]
    ELSE ScanLoop([i |-> ScanTop("fib_double_clz", k), ab |-> ScanSeed], k)

\* fib_sequence(k): the call through the selector
Apply(sel, k) ==
    CASE sel = "fib_dp" -> fib_dp(k)
      [] sel = "fib_double" -> fib_double(k)
      [] sel = "fib_double_clz" -> fib_double_clz(k)

(***************************************************************************)
(* fib_read's rendering of the result into tmp[MAX_DIGITS].  Characters    *)
(* are their ASCII codes; 0 is NUL.                                        *)
(***************************************************************************)
\* the digit's value stored as the character ("%c")
Snprintf_raw(tmp, index, d) ==
    IF MAX_DIGITS - index >= 2
    THEN [tmp EXCEPT ![index + 1] = d, ![index + 2] = 0]
    ELSE IF MAX_DIGITS - index = 1
    THEN [tmp EXCEPT ![index + 1] = 0]
    ELSE tmp

\* snprintf(&tmp[index], MAX_DIGITS - index, "%d", d) for a digit d in 0..9:
\* the character and a terminating NUL as far as the size allows
Snprintf(tmp, index, d) ==
    IF MAX_DIGITS - index >= 2
    THEN [tmp EXCEPT ![index + 1] = 48 + d, ![index + 2] = 0]
    ELSE IF MAX_DIGITS - index = 1
    THEN [tmp EXCEPT ![index + 1] = 0]
    ELSE tmp

\* the digits rendered in storage order: result.digits[i]
RECURSIVE FormatLoop_forward(_, _)
FormatLoop_forward(st, result) ==
    IF st.i >= Len(result) THEN st.tmp
    ELSE FormatLoop_forward([i |-> st.i + 1, index |-> st.index + 1,
                             tmp |-> Snprintf(st.tmp, st.index,
                                              result[st.i + 1])], result)

\* for (int i = 0, index = 0; i < result.num_digits; ++i) index += snprintf(...)
RECURSIVE FormatLoop(_, _)
FormatLoop(st, result) ==
    IF st.i >= Len(result) THEN st.tmp
    ELSE FormatLoop([i |-> st.i + 1, index |-> st.index + 1,
                     tmp |-> Snprintf(st.tmp, st.index,
                                      result[Len(result) - st.i])], result)

\* char tmp[MAX_DIGITS] = {0}; ...; copy_to_user(buf, tmp, MAX_DIGITS)
Format(result) == FormatLoop([i |-> 0, index |-> 0, tmp |-> Zeros(MAX_DIGITS)], result)

(***************************************************************************)
(* State.                                                                  *)
(***************************************************************************)
NumCallers == 2
Callers == 1..NumCallers

Strategies == {"fib_dp", "fib_double", "fib_double_clz"}

EBUSY == 16

\* what a caller passes: the first byte of a write, an lseek's offset and origin
WriteBytes == 0..3
Offsets == {-(MAX_LENGTH + 1), 0, 50, 92, MAX_LENGTH - 10, MAX_LENGTH - 1, MAX_LENGTH + 1}
Origins == 0..3
\* elapsed nanoseconds a read may measure
Elapsed == {100, 200}

VARIABLES
    \* the driver
    fib_mutex,      \* TRUE while the mutex is locked
    fib_sequence,   \* the selected strategy, "NULL" until a write selects one
    session,        \* per caller: "open" while it holds an open file
    f_pos,          \* per caller: file->f_pos of its open file, 0 when it has none
    last,           \* the most recent call: op, caller, arg (the first byte a
                    \* write was given, an lseek's new_pos before clamping),
                    \* ret, the buffer handed back (buf) and fib_read's local
                    \* result (bn)
    oops,           \* a read called through the NULL selector
    \* one strategy call, step by step
    k,              \* the index the strategies are called with
    active,         \* the strategy executing, or "none"
    pc,             \* its position
    i,              \* its loop variable
    a, b, tmp1,     \* the bit scan's locals
    f,              \* fib_dp's array f[0..i-1]
    iters,          \* per strategy: loop bodies executed
    result,         \* per strategy: the value returned, <<>> before it returns
    \* the module's life cycle
    mod,            \* loaded or not (state), the last of init_fib_dev and
                    \* exit_fib_dev to run (op), init_fib_dev's return value
                    \* (rc), the number of loads, and per resource the number
                    \* of times it was acquired (acq) and released (rel)
    \* one bn_mul call
    mul             \* its operands a and b, its position and its result r

devVars == <<fib_mutex, fib_sequence, session, f_pos, last, oops>>
fibVars == <<k, active, pc, i, a, b, tmp1, f, iters, result>>
auxVars == <<mod, mul>>
vars == <<fib_mutex, fib_sequence, session, f_pos, last, oops,
          k, active, pc, i, a, b, tmp1, f, iters, result, mod, mul>>

NoCall == [op |-> "none", caller |-> 0, arg |-> 0, ret |-> 0, buf |-> <<>>, bn |-> <<>>]

DevInit ==
    /\ fib_mutex = FALSE
    /\ fib_sequence = "NULL"
    /\ session = [c \in Callers |-> "closed"]
    /\ f_pos = [c \in Callers |-> 0]
    /\ last = NoCall
    /\ oops = FALSE

\* the resources init_fib_dev acquires, in the order it acquires them
Resources == <<"region", "cdev", "class", "device">>
ResourceSet == {Resources[n] : n \in 1..Len(Resources)}

\* after a successful init_fib_dev: each resource acquired once
ModLoaded ==
    [state |-> "loaded", op |-> "init", rc |-> 0, loads |-> 1,
     acq |-> [r \in ResourceSet |-> 1], rel |-> [r \in ResourceSet |-> 0]]

\* before the module is loaded
ModUnloaded ==
    [state |-> "unloaded", op |-> "none", rc |-> 0, loads |-> 0,
     acq |-> [r \in ResourceSet |-> 0], rel |-> [r \in ResourceSet |-> 0]]

\* no bn_mul call in progress
MulIdle == [pc |-> "idle", a |-> <<>>, b |-> <<>>, r |-> <<>>]

FibIdle ==
    /\ active = "none"
    /\ pc = "idle"
    /\ i = 0
    /\ a = <<>>
    /\ b = <<>>
    /\ tmp1 = <<>>
    /\ f = <<>>
    /\ iters = [s \in Strategies |-> 0]
    /\ result = [s \in Strategies |-> <<>>]

(***************************************************************************)
(* The driver's file operations, each a whole handler.                     *)
(***************************************************************************)
\* an open that takes the session without trying the lock
fib_open_nolock(c) ==
    /\ ~oops
    /\ session[c] = "closed"
    /\ fib_mutex' = TRUE
    /\ session' = [session EXCEPT ![c] = "open"]
    /\ f_pos' = [f_pos EXCEPT ![c] = 0]
    /\ last' = [op |-> "open", caller |-> c, arg |-> 0, ret |-> 0, buf |-> <<>>, bn |-> <<>>]
    /\ UNCHANGED <<fib_sequence, oops>>
    /\ UNCHANGED <<fibVars, auxVars>>

\* the result of mutex_trylock ignored: the open succeeds either way
fib_open_ignore(c) ==
    /\ ~oops
    /\ session[c] = "closed"
    /\ fib_mutex' = TRUE
    /\ session' = [session EXCEPT ![c] = "open"]
    /\ f_pos' = [f_pos EXCEPT ![c] = 0]
    /\ last' = [op |-> "open", caller |-> c, arg |-> 0,
                ret |-> IF fib_mutex THEN -EBUSY ELSE 0, buf |-> <<>>, bn |-> <<>>]
    /\ UNCHANGED <<fib_sequence, oops>>
    /\ UNCHANGED <<fibVars, auxVars>>

fib_open(c) ==
    /\ ~oops
    /\ session[c] = "closed"
    /\ IF fib_mutex
       THEN /\ last' = [op |-> "open", caller |-> c, arg |-> 0, ret |-> -EBUSY, buf |-> <<>>, bn |-> <<>>]
            /\ UNCHANGED <<fib_mutex, session, f_pos>>
       ELSE /\ fib_mutex' = TRUE
            /\ session' = [session EXCEPT ![c] = "open"]
            /\ f_pos' = [f_pos EXCEPT ![c] = 0]
            /\ last' = [op |-> "open", caller |-> c, arg |-> 0, ret |-> 0, buf |-> <<>>, bn |-> <<>>]
    /\ UNCHANGED <<fib_sequence, oops>>
    /\ UNCHANGED <<fibVars, auxVars>>

\* a release that also forgets the selection
fib_release_reset(c) ==
    /\ ~oops
    /\ session[c] = "open"
    /\ fib_mutex' = FALSE
    /\ session' = [session EXCEPT ![c] = "closed"]
    /\ f_pos' = [f_pos EXCEPT ![c] = 0]
    /\ fib_sequence' = "NULL"
    /\ last' = [op |-> "release", caller |-> c, arg |-> 0, ret |-> 0, buf |-> <<>>, bn |-> <<>>]
    /\ UNCHANGED oops
    /\ UNCHANGED <<fibVars, auxVars>>

\* a release that leaves the mutex locked
fib_release_nounlock(c) ==
    /\ ~oops
    /\ session[c] = "open"
    /\ session' = [session EXCEPT ![c] = "closed"]
    /\ f_pos' = [f_pos EXCEPT ![c] = 0]
    /\ last' = [op |-> "release", caller |-> c, arg |-> 0, ret |-> 0, buf |-> <<>>, bn |-> <<>>]
    /\ UNCHANGED <<fib_mutex, fib_sequence, oops>>
    /\ UNCHANGED <<fibVars, auxVars>>

fib_release(c) ==
    /\ ~oops
    /\ session[c] = "open"
    /\ fib_mutex' = FALSE
    /\ session' = [session EXCEPT ![c] = "closed"]
    /\ f_pos' = [f_pos EXCEPT ![c] = 0]
    /\ last' = [op |-> "release", caller |-> c, arg |-> 0, ret |-> 0, buf |-> <<>>, bn |-> <<>>]
    /\ UNCHANGED <<fib_sequence, oops>>
    /\ UNCHANGED <<fibVars, auxVars>>

fib_read(c) ==
    /\ ~oops
    /\ session[c] = "open"
    /\ IF fib_sequence = "NULL"
       THEN /\ oops' = TRUE
            /\ last' = [op |-> "read", caller |-> c, arg |-> 0, ret |-> 0, buf |-> <<>>, bn |-> <<>>]
       ELSE /\ LET res == Apply(fib_sequence, f_pos[c])
                   tmp == Format(res)
               IN  \E ns \in Elapsed :
                     last' = [op |-> "read", caller |-> c, arg |-> 0, ret |-> ns,
                              buf |-> tmp, bn |-> res]
            /\ UNCHANGED oops
    /\ UNCHANGED <<fib_mutex, fib_sequence, session, f_pos>>
    /\ UNCHANGED <<fibVars, auxVars>>

fib_write(c, byte) ==
    /\ ~oops
    /\ session[c] = "open"
    /\ fib_sequence' =
         CASE byte = 0 -> "fib_dp"
           [] byte = 1 -> "fib_double"
           [] byte = 2 -> "fib_double_clz"
           [] OTHER -> fib_sequence
    /\ last' = [op |-> "write", caller |-> c, arg |-> byte, ret |-> 1, buf |-> <<>>, bn |-> <<>>]
    /\ UNCHANGED <<fib_mutex, session, f_pos, oops>>
    /\ UNCHANGED <<fibVars, auxVars>>

\* loff_t new_pos = 0; switch (orig) { ... }: the position before it is clamped
RawPos(pos, offset, orig) ==
    CASE orig = 0 -> offset
      [] orig = 1 -> pos + offset
      [] orig = 2 -> MAX_LENGTH - offset
      [] OTHER -> 0

\* the upper clamp left out
NewPos_noceiling(pos, offset, orig) ==
    LET new_pos == RawPos(pos, offset, orig)
    IN  IF new_pos < 0 THEN 0 ELSE new_pos

\* the position an lseek stores and returns
NewPos(pos, offset, orig) ==
    LET new_pos == RawPos(pos, offset, orig)
    IN  IF new_pos > MAX_LENGTH THEN MAX_LENGTH
        ELSE IF new_pos < 0 THEN 0
        ELSE new_pos

\* last.arg keeps new_pos as the switch left it
fib_device_lseek(c, offset, orig) ==
    /\ ~oops
    /\ session[c] = "open"
    /\ f_pos' = [f_pos EXCEPT ![c] = NewPos(f_pos[c], offset, orig)]
    /\ last' = [op |-> "lseek", caller |-> c, arg |-> RawPos(f_pos[c], offset, orig),
                ret |-> NewPos(f_pos[c], offset, orig), buf |-> <<>>, bn |-> <<>>]
    /\ UNCHANGED <<fib_mutex, fib_sequence, session, oops>>
    /\ UNCHANGED <<fibVars, auxVars>>

Init == DevInit /\ k = 0 /\ FibIdle /\ mod = ModLoaded /\ mul = MulIdle

Next ==
    \E c \in Callers :
        \/ fib_open(c)
        \/ fib_release(c)
        \/ fib_read(c)
        \/ \E byte \in WriteBytes : fib_write(c, byte)
        \/ \E offset \in Offsets, orig \in Origins : fib_device_lseek(c, offset, orig)

Spec == Init /\ [][Next]_vars

(***************************************************************************)
(* The strategies step by step: each is called once with the same k, in    *)
(* the order fib_dp, fib_double, fib_double_clz, one loop step per action. *)
(***************************************************************************)
\* the strategy's locals die when it returns
Return(s, v) ==
    /\ result' = [result EXCEPT ![s] = v]
    /\ active' = "none"
    /\ pc' = "idle"
    /\ i' = 0
    /\ a' = <<>>
    /\ b' = <<>>
    /\ tmp1' = <<>>
    /\ f' = <<>>

\* bn_t f[k + 2]; bn_init(&f[0], 0); bn_init(&f[1], 1); i = 2
fib_dp_Entry ==
    /\ pc = "idle"
    /\ result["fib_dp"] = <<>>
    /\ active' = "fib_dp"
    /\ f' = <<bn_init(0), bn_init(1)>>
    /\ i' = 2
    /\ pc' = "dp_loop"
    /\ UNCHANGED <<k, a, b, tmp1, iters, result>>
    /\ UNCHANGED <<devVars, auxVars>>

\* the sum taken of f[i - 1] twice
fib_dp_Loop_same ==
    /\ active = "fib_dp"
    /\ pc = "dp_loop"
    /\ i <= k
    /\ f' = Append(f, bn_add(f[i], f[i]))
    /\ i' = i + 1
    /\ iters' = [iters EXCEPT !["fib_dp"] = @ + 1]
    /\ UNCHANGED <<k, active, pc, a, b, tmp1, result>>
    /\ UNCHANGED <<devVars, auxVars>>

\* i <= k: bn_add(&f[i], &f[i - 1], &f[i - 2]); i++
fib_dp_Loop ==
    /\ active = "fib_dp"
    /\ pc = "dp_loop"
    /\ i <= k
    /\ f' = Append(f, bn_add(f[i], f[i - 1]))
    /\ i' = i + 1
    /\ iters' = [iters EXCEPT !["fib_dp"] = @ + 1]
    /\ UNCHANGED <<k, active, pc, a, b, tmp1, result>>
    /\ UNCHANGED <<devVars, auxVars>>

\* i > k: return f[k]
fib_dp_Return ==
    /\ active = "fib_dp"
    /\ pc = "dp_loop"
    /\ i > k
    /\ Return("fib_dp", f[k + 1])
    /\ UNCHANGED <<k, iters>>
    /\ UNCHANGED <<devVars, auxVars>>

\* the loop entered for k = 1 too
ScanEntry_noshort(s) ==
    /\ pc = "idle"
    /\ result[s] = <<>>
    /\ IF k = 0 THEN Return(s, ScanSeed[1])
       ELSE /\ active' = s
            /\ a' = ScanSeed[1]
            /\ b' = ScanSeed[2]
            /\ i' = ScanTop(s, k)
            /\ pc' = "scan_head"
            /\ UNCHANGED <<tmp1, f, result>>
    /\ UNCHANGED <<k, iters>>
    /\ UNCHANGED <<devVars, auxVars>>

\* bn_init(&a, 0); bn_init(&b, 1); if (k == 0) return a; if (k == 1) return b;
\* i = the top bit position
ScanEntry(s) ==
    /\ pc = "idle"
    /\ result[s] = <<>>
    /\ IF k = 0 THEN Return(s, ScanSeed[1])
       ELSE IF k = 1 THEN Return(s, ScanSeed[2])
       ELSE /\ active' = s
            /\ a' = ScanSeed[1]
            /\ b' = ScanSeed[2]
            /\ i' = ScanTop(s, k)
            /\ pc' = "scan_head"
            /\ UNCHANGED <<tmp1, f, result>>
    /\ UNCHANGED <<k, iters>>
    /\ UNCHANGED <<devVars, auxVars>>

\* i >= 0: bn_add(&tmp1, &b, &b)
ScanAdd(s) ==
    /\ active = s
    /\ pc = "scan_head"
    /\ i >= 0
    /\ tmp1' = DoubleB(b)
    /\ pc' = "scan_sub"
    /\ UNCHANGED <<k, active, i, a, b, f, iters, result>>
    /\ UNCHANGED <<devVars, auxVars>>

\* what bn_sub may leave when its minuend is smaller than its subtrahend
Undefined == {bn_init(0), bn_init(1), bn_init(9)}

\* the pairs (a, b) the rest of the iteration can end with
ScanOutcomes(s) ==
    IF bn_ge(tmp1, a)
    THEN {ScanRest(a, b, tmp1, k, i)}
    ELSE {<<x, y>> : x \in Undefined, y \in Undefined}

\* bn_sub(&tmp2, &tmp1, &a) ... b = t1; --i
ScanSub(s) ==
    /\ active = s
    /\ pc = "scan_sub"
    /\ \E ab \in ScanOutcomes(s) :
         /\ a' = ab[1]
         /\ b' = ab[2]
    /\ i' = i - 1
    /\ iters' = [iters EXCEPT ![s] = @ + 1]
    /\ pc' = "scan_head"
    /\ UNCHANGED <<k, active, tmp1, f, result>>
    /\ UNCHANGED <<devVars, auxVars>>

\* i < 0: return a
ScanReturn(s) ==
    /\ active = s
    /\ pc = "scan_head"
    /\ i < 0
    /\ Return(s, a)
    /\ UNCHANGED <<k, iters>>
    /\ UNCHANGED <<devVars, auxVars>>

fib_double_Entry == result["fib_dp"] # <<>> /\ ScanEntry("fib_double")
fib_double_Add == ScanAdd("fib_double")
fib_double_Sub == ScanSub("fib_double")
fib_double_Return == ScanReturn("fib_double")

fib_double_clz_Entry == result["fib_double"] # <<>> /\ ScanEntry("fib_double_clz")
fib_double_clz_Add == ScanAdd("fib_double_clz")
fib_double_clz_Sub == ScanSub("fib_double_clz")
fib_double_clz_Return == ScanReturn("fib_double_clz")

FibInit == DevInit /\ k \in 0..MAX_LENGTH /\ FibIdle /\ mod = ModLoaded /\ mul = MulIdle

FibNext ==
    \/ fib_dp_Entry
    \/ fib_dp_Loop
    \/ fib_dp_Return
    \/ fib_double_Entry
    \/ fib_double_Add
    \/ fib_double_Sub
    \/ fib_double_Return
    \/ fib_double_clz_Entry
    \/ fib_double_clz_Add
    \/ fib_double_clz_Sub
    \/ fib_double_clz_Return

SpecFib == FibInit /\ [][FibNext]_vars

(***************************************************************************)
(* Module load and unload.  Each kernel call of init_fib_dev either        *)
(* succeeds or fails the way the code tests for; fail names the call that  *)
(* fails ("none": all succeed) and err is the negative value               *)
(* alloc_chrdev_region returns when it is the one.                         *)
(***************************************************************************)
MaxLoads == 3
InitCalls == <<"alloc_chrdev_region", "cdev_alloc", "cdev_add", "class_create",
               "device_create">>
Failures == {"none"} \union {InitCalls[n] : n \in 1..Len(InitCalls)}
\* -ENOMEM, -EBUSY
Errs == {-12, -16}

\* what init_fib_dev has acquired when it reaches the failing call
AcquiredBy(fail) ==
    CASE fail = "alloc_chrdev_region" -> {}
      [] fail = "cdev_alloc" -> {"region"}
      [] fail = "cdev_add" -> {"region", "cdev"}
      [] fail = "class_create" -> {"region", "cdev"}
      [] fail = "device_create" -> {"region", "cdev", "class"}
      [] fail = "none" -> ResourceSet

\* the labels fall through: failed_device_create: class_destroy;
\* failed_class_create: cdev_del; failed_cdev: unregister_chrdev_region
CleanupFrom(label) ==
    CASE label = "failed_device_create" -> {"class", "cdev", "region"}
      [] label = "failed_class_create" -> {"cdev", "region"}
      [] label = "failed_cdev" -> {"region"}

\* what the failure path releases: return rc, or the goto
ReleasedOn(fail) ==
    CASE fail = "alloc_chrdev_region" -> {}
      [] fail = "cdev_alloc" -> CleanupFrom("failed_cdev")
      [] fail = "cdev_add" -> CleanupFrom("failed_cdev")
      [] fail = "class_create" -> CleanupFrom("failed_class_create")
      [] fail = "device_create" -> CleanupFrom("failed_device_create")
      [] fail = "none" -> {}

ReturnCode(fail, err) ==
    CASE fail = "alloc_chrdev_region" -> err
      [] fail = "cdev_alloc" -> -1
      [] fail = "cdev_add" -> -2
      [] fail = "class_create" -> -3
      [] fail = "device_create" -> -4
      [] fail = "none" -> 0

Count(cnt, set) == [r \in ResourceSet |-> IF r \in set THEN cnt[r] + 1 ELSE cnt[r]]

init_fib_dev(fail, err) ==
    /\ mod.state = "unloaded"
    /\ mod.loads < MaxLoads
    /\ fib_mutex' = FALSE
    /\ mod' = [state |-> IF fail = "none" THEN "loaded" ELSE "unloaded",
               op |-> "init",
               rc |-> ReturnCode(fail, err),
               loads |-> mod.loads + 1,
               acq |-> Count(mod.acq, AcquiredBy(fail)),
               rel |-> Count(mod.rel, ReleasedOn(fail))]
    /\ UNCHANGED <<fib_sequence, session, f_pos, last, oops, mul>>
    /\ UNCHANGED fibVars

\* device_destroy; class_destroy; cdev_del; unregister_chrdev_region
exit_fib_dev ==
    /\ mod.state = "loaded"
    /\ mod' = [mod EXCEPT !.state = "unloaded", !.op = "exit",
                          !.rel = Count(mod.rel, ResourceSet)]
    /\ UNCHANGED <<devVars, fibVars, mul>>

InitInit == DevInit /\ k = 0 /\ FibIdle /\ mod = ModUnloaded /\ mul = MulIdle

InitNext ==
    \/ \E fail \in Failures, err \in Errs : init_fib_dev(fail, err)
    \/ exit_fib_dev

SpecInit == InitInit /\ [][InitNext]_vars

(***************************************************************************)
(* One call of bn_mul on canonical operands.                               *)
(***************************************************************************)
MaxOperand == 120
Operands == {bn_init(v) : v \in 0..MaxOperand}

bn_mul_Call ==
    /\ mul.pc = "call"
    /\ mul' = [mul EXCEPT !.pc = "done", !.r = bn_mul(mul.a, mul.b)]
    /\ UNCHANGED <<devVars, fibVars, mod>>

MulInit ==
    /\ DevInit /\ k = 0 /\ FibIdle /\ mod = ModLoaded
    /\ mul \in [pc : {"call"}, a : Operands, b : Operands, r : {<<>>}]

MulNext == bn_mul_Call

SpecMul == MulInit /\ [][MulNext]_vars

(***************************************************************************)
(* The Fibonacci numbers themselves, for the properties below: F(n) kept   *)
(* as four limbs of eight decimal digits, least-significant limb first     *)
(* (F(152) < 10^32), independent of the driver's arithmetic.               *)
(***************************************************************************)
LimbAdd(x, y) ==
    LET s1 == x[1] + y[1]
        s2 == x[2] + y[2] + s1 \div 100000000
        s3 == x[3] + y[3] + s2 \div 100000000
        s4 == x[4] + y[4] + s3 \div 100000000
    IN  <<s1 % 100000000, s2 % 100000000, s3 % 100000000, s4>>

\* n steps of the recurrence from the pair p = <<F(m), F(m + 1)>>
RECURSIVE LimbSteps(_, _)
LimbSteps(p, n) ==
    IF n = 0 \/ Len(p) # 2 THEN p
    ELSE IF n = 1 THEN <<p[2], LimbAdd(p[1], p[2])>>
    ELSE LimbSteps(LimbSteps(p, n \div 2), n - n \div 2)

\* <<F(n), F(n + 1)>> in limbs
LimbPair(n) == LimbSteps(<< <<0, 0, 0, 0>>, <<1, 0, 0, 0>> >>, n)

RECURSIVE Pow10(_)
Pow10(n) == IF n = 0 THEN 1 ELSE 10 * Pow10(n - 1)

\* the decimal digits of a limb number, least-significant first, no
\* superfluous most-significant zero
LimbDigits(x) ==
    Trim([j \in 1..32 |-> (x[(j - 1) \div 8 + 1] \div Pow10((j - 1) % 8)) % 10])

\* F(n) as decimal digits, least-significant first
Fib(n) == LimbDigits(LimbPair(n)[1])

\* a number written most-significant digit first, as bn_t digits
Digits(msf) == [j \in 1..Len(msf) |-> msf[Len(msf) + 1 - j]]

\* the NUL-padded MAX_DIGITS-byte buffer holding the decimal string of n
DecimalString(n) ==
    [j \in 1..MAX_DIGITS |-> IF j <= Len(n) THEN 48 + n[Len(n) + 1 - j] ELSE 0]

\* F(10), F(50), F(92)
Fib10 == Digits(<<5, 5>>)
Fib50 == Digits(<<1, 2, 5, 8, 6, 2, 6, 9, 0, 2, 5>>)
Fib92 == Digits(<<7, 5, 4, 0, 1, 1, 3, 8, 0, 4, 7, 4, 6, 3, 4, 6, 4, 2, 9>>)

AllReturned == \A s \in Strategies : result[s] # <<>>

(***************************************************************************)
(* Properties of the strategies (SpecFib).                                 *)
(***************************************************************************)
\* C1: for every k in 0..MAX_LENGTH, fib_dp(k), fib_double(k) and
\* fib_double_clz(k) return the same bn_t, digit for digit.
C1_Agreement ==
    AllReturned =>
        /\ result["fib_dp"] = result["fib_double"]
        /\ result["fib_double"] = result["fib_double_clz"]

C1_Witness ==
    /\ AllReturned
    /\ k = 92
    /\ result["fib_dp"] = Fib92
    /\ result["fib_double_clz"] = Fib92

\* C2: for each strategy and every k >= 2, the value it returns for k is the
\* bn_add of the values the same strategy returns for k - 1 and k - 2.
C2_Recurrence ==
    (AllReturned /\ k >= 2) =>
        \A s \in Strategies :
            result[s] = bn_add(Apply(s, k - 1), Apply(s, k - 2))

C2_Witness ==
    /\ AllReturned
    /\ k = MAX_LENGTH
    /\ result["fib_double"] = bn_add(fib_double(MAX_LENGTH - 1), fib_double(MAX_LENGTH - 2))
    /\ Len(result["fib_double"]) = 31

\* C3: under every strategy k = 0 yields 0 and k = 1 yields 1, and for these
\* two indices no strategy executes a loop body.
C3_BaseCases ==
    k <= 1 =>
        \A s \in Strategies :
            /\ iters[s] = 0
            /\ result[s] # <<>> => result[s] = <<k>>

C3_Witness ==
    /\ k = 1
    /\ AllReturned
    /\ result["fib_double"] = <<1>>
    /\ iters["fib_double"] = 0

\* C5: at every bn_sub(tmp2, tmp1, a) of the bit scans the minuend tmp1 = b + b
\* is numerically at least the subtrahend a.
C5_SubPrecondition == pc = "scan_sub" => bn_ge(tmp1, a)

\* a leading-zero iteration of the fixed scan, and one on large operands
C5_Witness ==
    /\ pc = "scan_sub"
    /\ active = "fib_double"
    /\ \/ i = SCAN_TOP /\ a = <<0>> /\ tmp1 = <<2>>
       \/ i = 0 /\ k = MAX_LENGTH /\ Len(a) = 16 /\ Len(tmp1) = 16

\* C8 as stated: fib_double_clz executes exactly bit-length(k) iterations for
\* every k >= 1, bit-length(k) being the n with 2^(n-1) <= k < 2^n.
C8_Original ==
    (result["fib_double_clz"] # <<>> /\ k >= 1) =>
        /\ iters["fib_double_clz"] >= 1
        /\ Shr(k, iters["fib_double_clz"] - 1) = 1

\* C8 amended: fib_double_clz executes exactly bit-length(k) iterations for
\* every k >= 2, and none for k = 1 (and k = 0), which return before the loop.
C8_Amended ==
    result["fib_double_clz"] # <<>> =>
        IF k >= 2
        THEN /\ iters["fib_double_clz"] >= 1
             /\ Shr(k, iters["fib_double_clz"] - 1) = 1
        ELSE iters["fib_double_clz"] = 0

C8_Witness ==
    /\ result["fib_double_clz"] # <<>>
    /\ k = 100
    /\ iters["fib_double_clz"] = 7

\* C9: for every k fib_double_clz executes no more iterations than fib_double,
\* and fib_double executes its full window of 32 for every k >= 2.
C9_IterationCounts ==
    AllReturned =>
        /\ iters["fib_double_clz"] <= iters["fib_double"]
        /\ k >= 2 => iters["fib_double"] = 32

C9_Witness ==
    /\ AllReturned
    /\ k = 2
    /\ iters["fib_double"] = 32
    /\ iters["fib_double_clz"] = 2

\* C10: in both bit scans, at the end of the iteration for bit position p the
\* pair (a, b) is (F(n), F(n + 1)) for n = floor(k / 2^p); so it is (0, 1)
\* through the leading zero positions, and a = F(k) after position 0.
\* (At the loop head the position just done is i + 1.)
C10_LoopInvariant ==
    pc = "scan_head" =>
        /\ a = Fib(Shr(k, i + 1))
        /\ b = Fib(Shr(k, i + 1) + 1)

C10_Witness ==
    /\ pc = "scan_head"
    /\ active = "fib_double"
    /\ \/ k = 92 /\ i = -1 /\ a = Fib92
       \/ k = 100 /\ i = 0 /\ a = Fib50
       \/ k = 3 /\ i = 1 /\ a = <<0>> /\ b = <<1>> /\ iters["fib_double"] = 30

(***************************************************************************)
(* Properties of the driver (Spec).                                        *)
(***************************************************************************)
\* C4: a read (in a session, after a write has selected a strategy and an
\* lseek has set the position to k) hands back the decimal string of F(k),
\* most-significant digit first and NUL-terminated, whichever strategy is
\* selected: "0", "1", "55", "12586269025", "7540113804746346429" for
\* k = 0, 1, 10, 50, 92.
C4_ReadDecimal ==
    (last.op = "read" /\ ~oops) =>
        LET pos == f_pos[last.caller] IN
        /\ last.buf = DecimalString(Fib(pos))
        /\ pos = 0 => last.buf = DecimalString(<<0>>)
        /\ pos = 1 => last.buf = DecimalString(<<1>>)
        /\ pos = 10 => last.buf = DecimalString(Fib10)
        /\ pos = 50 => last.buf = DecimalString(Fib50)
        /\ pos = 92 => last.buf = DecimalString(Fib92)

C4_Witness ==
    /\ last.op = "read"
    /\ fib_sequence = "fib_double_clz"
    /\ f_pos[last.caller] = 92
    /\ last.buf = DecimalString(Fib92)
    /\ last.buf[1] = 55
    /\ last.buf[20] = 0

\* C6: the string a read produces starts with the most-significant digit
\* of the result, which is not zero when there is more than one digit, so it
\* never starts with '0' unless it is exactly "0"; and it is "0" exactly
\* when k = 0.
C6_NoLeadingZero ==
    (last.op = "read" /\ ~oops) =>
        /\ last.buf[1] = 48 + last.bn[Len(last.bn)]
        /\ Len(last.bn) > 1 => last.bn[Len(last.bn)] # 0
        /\ last.buf[1] = 48 => last.buf[2] = 0
        /\ last.buf = DecimalString(<<0>>) <=> f_pos[last.caller] = 0

C6_Witness ==
    /\ last.op = "read"
    /\ ~oops
    /\ f_pos[last.caller] = 10
    /\ last.buf[1] = 53
    /\ last.buf[2] = 53
    /\ last.buf[3] = 0

\* C7: at most one session holds the device open at a time, and an open
\* attempted while another session is open returns -EBUSY at once and leaves
\* the caller without a session.
C7_Exclusive ==
    /\ Cardinality({c \in Callers : session[c] = "open"}) <= 1
    /\ (last.op = "open" /\ \E d \in Callers \ {last.caller} : session[d] = "open")
         => (last.ret = -EBUSY /\ session[last.caller] = "closed")
    /\ (last.op = "open" /\ last.ret = 0) => session[last.caller] = "open"
    /\ fib_mutex <=> \E c \in Callers : session[c] = "open"

C7_Witness ==
    /\ last.op = "open"
    /\ last.ret = -EBUSY
    /\ session[last.caller] = "closed"
    /\ \E d \in Callers \ {last.caller} : session[d] = "open"

C12_SingleOwner ==
    [][\A c \in Callers :
          (session[c] = "open" /\ last'.caller # c) =>
              /\ fib_sequence' = fib_sequence
              /\ session'[c] = "open"
              /\ last'.op = "open"
              /\ last'.ret = -EBUSY
              /\ session'[last'.caller] = "closed"]_vars

\* another caller has just been turned away from a session that has
\* selected a strategy
C12_Witness ==
    /\ last.op = "open"
    /\ last.ret = -EBUSY
    /\ fib_sequence = "fib_double"
    /\ \E d \in Callers \ {last.caller} : session[d] = "open" /\ f_pos[d] = 92

\* C13: fib_mutex is locked exactly while a session is open; an open that
\* returns -EBUSY leaves the lock and the sessions as they were; an open
\* of the unlocked device succeeds and locks it; a release unlocks it, so
\* the device is never busy with no session open.
C13_LockFollowsSession ==
    [][/\ fib_mutex' <=> \E c \in Callers : session'[c] = "open"
       /\ (last'.op = "open" /\ last'.ret = -EBUSY)
            => (fib_mutex /\ fib_mutex' /\ session' = session)
       /\ (last'.op = "open" /\ ~fib_mutex)
            => (last'.ret = 0 /\ fib_mutex' /\ session'[last'.caller] = "open")
       /\ last'.op = "release"
            => (fib_mutex /\ ~fib_mutex' /\ \A c \in Callers : session'[c] = "closed")
      ]_vars

\* the second caller's session, opened after the first caller's was released
C13_Witness ==
    /\ last.op = "open"
    /\ last.caller = 2
    /\ last.ret = 0
    /\ fib_mutex
    /\ session = [c \in Callers |-> IF c = 2 THEN "open" ELSE "closed"]
    /\ fib_sequence # "NULL"

C15_SelectorSet ==
    last.op = "read" => (fib_sequence \in Strategies /\ ~oops)

(***************************************************************************)
(* Capacity (SpecFib).  The arithmetic with no capacity limit: what add,   *)
(* sub and mul would produce were the digit array unbounded.               *)
(***************************************************************************)
AddFull(x, y) == Trim(AddLoop([i |-> 0, carry |-> 0, digits |-> <<>>], x, y))
SubFull(x, y) == Trim(SubLoop([i |-> 0, borrow |-> 0, digits |-> <<>>], x, y))
MulFull(x, y) == TrimOne(MulRows([i |-> 0, digits |-> Zeros(Len(x) + Len(y))], x, y))

\* every value the iteration at "scan_sub" is about to produce, tmp1 included
IterationValues ==
    LET tmp2 == SubFull(tmp1, a)
        t1   == MulFull(a, tmp2)
        sqa  == MulFull(a, a)
        sqb  == MulFull(b, b)
        t2   == AddFull(sqa, sqb)
    IN  {AddFull(b, b), tmp2, t1, sqa, sqb, t2}
            \union (IF BitSet(k, i) THEN {AddFull(t1, t2)} ELSE {})

FitsCapacity(v) == Len(v) <= MAX_DIGITS /\ bn_ge(Fib(MAX_LENGTH + 1), v)

\* C16: for every k in 0..MAX_LENGTH and every strategy, each value a bn_add,
\* bn_sub or bn_mul produces during the computation (2b, 2b - a, a(2b - a),
\* a*a, b*b, a*a + b*b, the extra a + b, and fib_dp's sums) is at most
\* F(MAX_LENGTH + 1) and has at most MAX_DIGITS digits, so none is truncated.
C16_Capacity ==
    /\ pc = "scan_sub" =>
          /\ tmp1 = AddFull(b, b)
          /\ \A v \in IterationValues : FitsCapacity(v)
    /\ (pc = "dp_loop" /\ i <= k) => FitsCapacity(AddFull(f[i], f[i - 1]))

\* the last iteration for k = MAX_LENGTH produces F(MAX_LENGTH + 1) itself,
\* which fills the capacity
C16_Witness ==
    /\ pc = "scan_sub"
    /\ active = "fib_double_clz"
    /\ k = MAX_LENGTH
    /\ i = 0
    /\ AddFull(MulFull(a, a), MulFull(b, b)) = Fib(MAX_LENGTH + 1)
    /\ Len(Fib(MAX_LENGTH + 1)) = MAX_DIGITS

(***************************************************************************)
(* Properties of module load and unload (SpecInit).                        *)
(***************************************************************************)
\* C17 as stated: an init_fib_dev that fails returns a negative code with
\* every resource it had acquired released again; one that succeeds holds
\* each resource once, and exit_fib_dev then releases each exactly once.
C17_AllOrNothing ==
    /\ (mod.op = "init" /\ mod.state = "unloaded") =>
          /\ mod.rc < 0
          /\ \A r \in ResourceSet : mod.acq[r] = mod.rel[r]
    /\ (mod.op = "init" /\ mod.state = "loaded") =>
          /\ mod.rc = 0
          /\ \A r \in ResourceSet : mod.acq[r] = mod.rel[r] + 1
    /\ mod.op = "exit" => \A r \in ResourceSet : mod.acq[r] = mod.rel[r]

====
